---------------------------- MODULE Spec2Model ----------------------------
(***************************************************************************)
(* Translation memory engine of backend/main.py: the translations table,   *)
(* get_hash, difflib's SequenceMatcher.ratio as find_fuzzy_match uses it,  *)
(* find_fuzzy_match and translate_batch, run by concurrent requests.       *)
(*                                                                         *)
(* A text is a sequence of one-character strings.  A float ratio is the    *)
(* exact fraction <<numerator, denominator>> that the float rounds: for    *)
(* texts far shorter than 2^50 characters two such fractions compare as    *)
(* their floats do, the literal 0.9 included (9/10).                       *)
(***************************************************************************)
EXTENDS Integers, Sequences, FiniteSets, TLC

(***************************************************************************)
(* Bounds of the model.                                                    *)
(***************************************************************************)
\* longest batch handed to translate_batch
MaxBatch == 2
\* most rows in the translations table before the first request
MaxInitRows == 1
\* most candidate rows handed to find_fuzzy_match when it is checked alone
MaxCands == 2
\* longest batch of a call of translate_batch that is checked alone
MaxSolo == 4
\* most units (paragraphs and cells) of a document handed to replace_texts_*
MaxUnits == 4
\* most translated texts handed to replace_texts_*
MaxTranslated == 3
\* most units (paragraphs, cells, lines) of a file uploaded to /translate
MaxUpload == 2

(***************************************************************************)
(* Text units.  ratio(PumpUnit1, PumpUnit2) = 18/20 = 0.9 exactly,         *)
(* ratio(PumpUnit12, PumpUnit1) = ratio(PumpUnit12, PumpUnit2) = 20/21,    *)
(* Solar shares no character with the others (ratio 0).                    *)
(***************************************************************************)
PumpUnit1 == <<"p", "u", "m", "p", " ", "u", "n", "i", "t", "1">>
PumpUnit2 == <<"p", "u", "m", "p", " ", "u", "n", "i", "t", "2">>
PumpUnit12 == <<"p", "u", "m", "p", " ", "u", "n", "i", "t", "1", "2">>
Solar == <<"s", "o", "l", "a", "r">>

\* every text of the model, in a fixed order
TextPool == <<PumpUnit1, PumpUnit2, PumpUnit12, Solar>>
AllTexts == {TextPool[i] : i \in 1..Len(TextPool)}
\* the text units requests are made of
Texts == {PumpUnit1, PumpUnit2, PumpUnit12}
\* what the remote provider may answer (message.content), for any text
Outputs == {"de1", "de2"}
\* the translations of the rows stored before the first request
StoredOutputs == {"de0"}
\* the concurrent requests
Runs == {"r1", "r2"}

\* Python's None where a row, a match, a ratio or a returned dict is expected
None == [none |-> TRUE]
\* a local not yet assigned
Unset == "unset"
\* no exception has left the call
NoError == "none"

(***************************************************************************)
(* Fractions.                                                              *)
(***************************************************************************)
Frac(n, d) == [num |-> n, den |-> d]
FracGt(r, s) == r.num * s.den > s.num * r.den
FracGe(r, s) == r.num * s.den >= s.num * r.den
FracEq(r, s) == r.num * s.den = s.num * r.den

(***************************************************************************)
(* get_hash: sha256(text).hexdigest().  The digest is modelled as          *)
(* collision-free on the texts of the model: a tagged index into TextPool. *)
(***************************************************************************)
get_hash(text) ==
    <<"sha256", CHOOSE i \in 1..Len(TextPool) : TextPool[i] = text>>

(***************************************************************************)
(* difflib.SequenceMatcher(None, a, b).ratio() with isjunk = None; the     *)
(* autojunk heuristic needs len(b) >= 200 and never applies here.          *)
(* Blocks are half-open 1-based ranges [lo, hi).                           *)
(***************************************************************************)
RECURSIVE RunLen(_, _, _, _, _, _)
\* length of the common run a[i..], b[j..] inside [i, ahi) x [j, bhi)
RunLen(a, b, i, j, ahi, bhi) ==
    IF i < ahi /\ j < bhi /\ a[i] = b[j]
    THEN 1 + RunLen(a, b, i + 1, j + 1, ahi, bhi)
    ELSE 0

\* the longest matching block in a[alo, ahi) and b[blo, bhi): of the longest
\* the one starting earliest in a, and of those the one starting earliest in b
find_longest_match(a, b, alo, ahi, blo, bhi) ==
    LET Blocks == {<<i, j, RunLen(a, b, i, j, ahi, bhi)>> :
                       i \in alo..(ahi - 1), j \in blo..(bhi - 1)}
        Best(x) == \A y \in Blocks :
                       \/ x[3] > y[3]
                       \/ x[3] = y[3] /\ x[1] < y[1]
                       \/ x[3] = y[3] /\ x[1] = y[1] /\ x[2] <= y[2]
    IN  IF Blocks = {} THEN <<alo, blo, 0>> ELSE CHOOSE x \in Blocks : Best(x)

RECURSIVE MatchedChars(_, _, _, _, _, _)
\* get_matching_blocks: total size of the blocks found by recursing to the
\* left and to the right of the longest matching block
MatchedChars(a, b, alo, ahi, blo, bhi) ==
    LET m == find_longest_match(a, b, alo, ahi, blo, bhi)
        i == m[1]
        j == m[2]
        k == m[3]
    IN  IF k = 0 THEN 0
        ELSE k + (IF alo < i /\ blo < j
                  THEN MatchedChars(a, b, alo, i, blo, j) ELSE 0)
               + (IF i + k < ahi /\ j + k < bhi
                  THEN MatchedChars(a, b, i + k, ahi, j + k, bhi) ELSE 0)

\* _calculate_ratio: 2.0 * matches / length, and 1.0 when length is 0
SequenceMatcherRatio(a, b) ==
    IF Len(a) + Len(b) = 0 THEN Frac(1, 1)
    ELSE Frac(2 * MatchedChars(a, b, 1, Len(a) + 1, 1, Len(b) + 1),
              Len(a) + Len(b))

\* the ratios of the model's texts, computed once
RatioTable == [a \in AllTexts |-> [b \in AllTexts |-> SequenceMatcherRatio(a, b)]]
Ratio(a, b) == RatioTable[a][b]

(***************************************************************************)
(* A row of the translations table (class Translation).                    *)
(***************************************************************************)
Translation(h, original, translated) ==
    [hash |-> h, original |-> original, translated |-> translated]

NoMatch == <<None, Frac(0, 1)>>

RECURSIVE FuzzyScan(_, _, _, _, _)
\* the loop of find_fuzzy_match over all_translations[k..], carrying
\* <<best_match, best_ratio>>
FuzzyScan(all_translations, k, text, threshold, best) ==
    IF k > Len(all_translations) THEN best
    ELSE LET item == all_translations[k]
             ratio == Ratio(text, item.original)
         IN  IF FracGt(ratio, best[2]) /\ FracGe(ratio, threshold)
             THEN FuzzyScan(all_translations, k + 1, text, threshold,
                            <<item, ratio>>)
             ELSE FuzzyScan(all_translations, k + 1, text, threshold, best)

RECURSIVE FuzzyScanLastTie(_, _, _, _, _)
FuzzyScanLastTie(all_translations, k, text, threshold, best) ==
    IF k > Len(all_translations) THEN best
    ELSE LET item == all_translations[k]
             ratio == Ratio(text, item.original)
         IN  IF /\ FracGe(ratio, best[2])
                /\ FracGt(ratio, Frac(0, 1))
                /\ FracGe(ratio, threshold)
             THEN FuzzyScanLastTie(all_translations, k + 1, text, threshold,
                                   <<item, ratio>>)
             ELSE FuzzyScanLastTie(all_translations, k + 1, text, threshold, best)

\* mutant: `ratio >= best_ratio`, so the last of several best candidates wins
find_fuzzy_match_last_tie(all_translations, text, threshold) ==
    LET best == FuzzyScanLastTie(all_translations, 1, text, threshold, NoMatch)
    IN  IF best[1] # None THEN best ELSE NoMatch

\* find_fuzzy_match(session, text, threshold): all_translations is what
\* session.query(Translation).all() returns
find_fuzzy_match(all_translations, text, threshold) ==
    LET best == FuzzyScan(all_translations, 1, text, threshold, NoMatch)
    IN  IF best[1] # None THEN best ELSE NoMatch


(***************************************************************************)
(* State.  store is the translations table, rows in insertion (rowid)      *)
(* order, which is the order SQLite's full scan returns them in.  Every    *)
(* other variable but fz is per request (a call of translate_batch).       *)
(***************************************************************************)
VARIABLES
    store,          \* the translations table
    pc,             \* where each call of translate_batch stands
    texts,          \* its argument
    idx,            \* 1-based position of `for text in texts`
    results,        \* its results list
    memory_hits,
    fuzzy_hits,
    openai_hits,
    translated,     \* the provider's answer, between the call and the commit
    err,            \* the exception that left translate_batch, or NoError
    ret,            \* the value translate_batch returned, or None
    calls,          \* history: remote provider calls the request has made
    begin,          \* history: the table and the ended requests at its start
    fz,             \* a direct call of find_fuzzy_match: its arguments and result
    http,           \* the POST /translate request behind each call, or None
    doc             \* a direct call of replace_texts_docx or replace_texts_xlsx

vars == <<store, pc, texts, idx, results, memory_hits, fuzzy_hits, openai_hits,
          translated, err, ret, calls, begin, fz, http, doc>>

locals == <<texts, idx, results, memory_hits, fuzzy_hits, openai_hits,
            translated, err, ret, calls, begin>>

\* the threshold literal of translate_batch and find_fuzzy_match's default
DefaultThreshold == Frac(9, 10)

Rows == {Translation(get_hash(t), t, o) : t \in Texts, o \in StoredOutputs}

\* tables the program can have built: no two rows share a key
WellKeyed(rows) ==
    \A i, j \in 1..Len(rows) : rows[i].hash = rows[j].hash => i = j

InitStores ==
    {s \in UNION {[1..n -> Rows] : n \in 0..MaxInitRows} : WellKeyed(s)}

Batches == UNION {[1..n -> Texts] : n \in 0..MaxBatch}

\* mutant: the lookup never finds a row
ExactLookupMiss(rows, h) == None

\* session.query(Translation).filter_by(hash=h).first()
ExactLookup(rows, h) ==
    IF \E i \in 1..Len(rows) : rows[i].hash = h
    THEN rows[CHOOSE i \in 1..Len(rows) :
                  /\ rows[i].hash = h
                  /\ \A j \in 1..(i - 1) : rows[j].hash # h]
    ELSE None

\* mutant: `ratio >= 0.9`
FuzzyHitInclusive(m) == m[1] # None /\ FracGe(m[2], DefaultThreshold)

\* `if fuzzy_match and ratio > 0.9`
FuzzyHit(m) == m[1] # None /\ FracGt(m[2], DefaultThreshold)

\* mutant: the hash column is no primary key
NoPrimaryKey(rows, row) == FALSE

\* hash = Column(String, primary_key=True): the INSERT of a row whose key is
\* in the table fails (sqlite3 UNIQUE constraint, sqlalchemy IntegrityError)
PrimaryKeyViolated(rows, row) ==
    \E i \in 1..Len(rows) : rows[i].hash = row.hash

\* mutant: the row is keyed by the fingerprint of the translation
NewRowKeyedByOutput(text, out) ==
    Translation(<<"sha256", IF out = "de1" THEN 1 ELSE 2>>, text, out)

\* mutant: the row is built with another translation than the one returned
NewRowStale(text, out) == Translation(get_hash(text), text, "de0")

\* session.add(Translation(hash=h, original=text, translated=translated))
NewRow(text, out) == Translation(get_hash(text), text, out)

\* mutant: session.merge, the new row takes the place of the rows before it
InsertOverwriting(rows, row) == <<row>>

\* mutant: the added row is never committed
InsertNothing(rows, row) == rows

\* session.commit() of the added row
Insert(rows, row) == Append(rows, row)

\* mutant: every hit is given similarity 1.0
ResultSimilarityOne(original, out, match_type, similarity) ==
    [original |-> original, translated |-> out, match_type |-> match_type,
     similarity |-> IF match_type = "new" THEN None ELSE Frac(1, 1)]

\* one entry of results
Result(original, out, match_type, similarity) ==
    [original |-> original, translated |-> out,
     match_type |-> match_type, similarity |-> similarity]

\* mutant: results.insert(0, ...)
PrependResult(rs, r) == <<r>> \o rs

\* results.append(...)
AppendResult(rs, r) == Append(rs, r)

\* mutant: the percentage is cut, not rounded, to two decimals
Trunc2Pct(x, n) == (x * 10000) \div n

\* round(x / n * 100, 2) in hundredths, for n < 32 (no tie at the third decimal)
Round2Pct(x, n) == (2 * x * 10000 + n) \div (2 * n)

\* mutant: `... if texts else 100`
EfficiencyEmptyFull(m, f, n) == IF n > 0 THEN Round2Pct(m + f, n) ELSE 10000

\* "efficiency": round((memory_hits + fuzzy_hits) / len(texts) * 100, 2) if texts else 0
Efficiency(m, f, n) == IF n > 0 THEN Round2Pct(m + f, n) ELSE 0

Ended(p) == pc[p] \in {"done", "error"}
Unit(p) == texts[p][idx[p]]

Init ==
    /\ store \in InitStores
    /\ pc = [p \in Runs |-> "idle"]
    /\ texts = [p \in Runs |-> <<>>]
    /\ idx = [p \in Runs |-> 1]
    /\ results = [p \in Runs |-> <<>>]
    /\ memory_hits = [p \in Runs |-> 0]
    /\ fuzzy_hits = [p \in Runs |-> 0]
    /\ openai_hits = [p \in Runs |-> 0]
    /\ translated = [p \in Runs |-> Unset]
    /\ err = [p \in Runs |-> NoError]
    /\ ret = [p \in Runs |-> None]
    /\ calls = [p \in Runs |-> 0]
    /\ begin = [p \in Runs |-> None]
    /\ fz = None
    /\ http = [p \in Runs |-> None]
    /\ doc = None

\* translate_batch(batch) is entered: lines 139-144
Call(p, batch) ==
    /\ pc[p] = "idle"
    /\ texts' = [texts EXCEPT ![p] = batch]
    /\ pc' = [pc EXCEPT ![p] = "loop"]
    /\ begin' = [begin EXCEPT ![p] =
                    [store |-> store, ended |-> {q \in Runs : Ended(q)}]]
    /\ UNCHANGED <<store, idx, results, memory_hits, fuzzy_hits, openai_hits,
                   translated, err, ret, calls, fz, doc>>

\* translate_batch(batch) is called on any batch of the model
Start(p) ==
    /\ pc[p] = "idle"
    /\ \E batch \in Batches : Call(p, batch)
    /\ UNCHANGED http

\* the exact lookup of the next unit: lines 146-157
Lookup(p) ==
    /\ pc[p] = "loop"
    /\ idx[p] <= Len(texts[p])
    /\ LET text == Unit(p)
           existing == ExactLookup(store, get_hash(text))
       IN  IF existing # None
           THEN /\ memory_hits' = [memory_hits EXCEPT ![p] = @ + 1]
                /\ results' = [results EXCEPT ![p] = AppendResult(@,
                       Result(text, existing.translated, "exact", Frac(1, 1)))]
                /\ idx' = [idx EXCEPT ![p] = @ + 1]
                /\ pc' = pc
           ELSE /\ pc' = [pc EXCEPT ![p] = "fuzzy"]
                /\ UNCHANGED <<memory_hits, results, idx>>
    /\ UNCHANGED <<store, texts, fuzzy_hits, openai_hits, translated, err, ret,
                   calls, begin, fz, http, doc>>

\* mutant: a fuzzy hit is counted in memory_hits
FuzzyCountedAsExact(p) ==
    /\ pc[p] = "fuzzy"
    /\ LET text == Unit(p)
           m == find_fuzzy_match(store, text, DefaultThreshold)
       IN  IF FuzzyHit(m)
           THEN /\ memory_hits' = [memory_hits EXCEPT ![p] = @ + 1]
                /\ results' = [results EXCEPT ![p] = AppendResult(@,
                       Result(text, m[1].translated, "fuzzy", m[2]))]
                /\ idx' = [idx EXCEPT ![p] = @ + 1]
                /\ pc' = [pc EXCEPT ![p] = "loop"]
           ELSE /\ pc' = [pc EXCEPT ![p] = "call"]
                /\ UNCHANGED <<memory_hits, results, idx>>
    /\ UNCHANGED <<store, texts, fuzzy_hits, openai_hits, translated, err, ret,
                   calls, begin, fz, http, doc>>

\* mutant: a fuzzy hit is written to the table under the unit's fingerprint
FuzzyCaching(p) ==
    /\ pc[p] = "fuzzy"
    /\ LET text == Unit(p)
           m == find_fuzzy_match(store, text, DefaultThreshold)
       IN  IF FuzzyHit(m)
           THEN /\ fuzzy_hits' = [fuzzy_hits EXCEPT ![p] = @ + 1]
                /\ results' = [results EXCEPT ![p] = AppendResult(@,
                       Result(text, m[1].translated, "fuzzy", m[2]))]
                /\ idx' = [idx EXCEPT ![p] = @ + 1]
                /\ pc' = [pc EXCEPT ![p] = "loop"]
                /\ store' = IF PrimaryKeyViolated(store, NewRow(text, m[1].translated))
                            THEN store
                            ELSE Insert(store, NewRow(text, m[1].translated))
           ELSE /\ pc' = [pc EXCEPT ![p] = "call"]
                /\ UNCHANGED <<fuzzy_hits, results, idx, store>>
    /\ UNCHANGED <<texts, memory_hits, openai_hits, translated, err, ret,
                   calls, begin, fz, http, doc>>

\* the fuzzy lookup: lines 159-168
Fuzzy(p) ==
    /\ pc[p] = "fuzzy"
    /\ LET text == Unit(p)
           m == find_fuzzy_match(store, text, DefaultThreshold)
       IN  IF FuzzyHit(m)
           THEN /\ fuzzy_hits' = [fuzzy_hits EXCEPT ![p] = @ + 1]
                /\ results' = [results EXCEPT ![p] = AppendResult(@,
                       Result(text, m[1].translated, "fuzzy", m[2]))]
                /\ idx' = [idx EXCEPT ![p] = @ + 1]
                /\ pc' = [pc EXCEPT ![p] = "loop"]
           ELSE /\ pc' = [pc EXCEPT ![p] = "call"]
                /\ UNCHANGED <<fuzzy_hits, results, idx>>
    /\ UNCHANGED <<store, texts, memory_hits, openai_hits, translated, err, ret,
                   calls, begin, fz, http, doc>>

\* client.chat.completions.create(...) answers: lines 171-179
ProviderReturns(p) ==
    /\ pc[p] = "call"
    /\ \E out \in Outputs : translated' = [translated EXCEPT ![p] = out]
    /\ calls' = [calls EXCEPT ![p] = @ + 1]
    /\ pc' = [pc EXCEPT ![p] = "commit"]
    /\ UNCHANGED <<store, texts, idx, results, memory_hits, fuzzy_hits,
                   openai_hits, err, ret, begin, fz, http, doc>>

\* mutant: the exception is caught and the unit is tried again from the fuzzy
\* lookup, without end while the provider keeps raising
ProviderRaisesRetry(p) ==
    /\ pc[p] = "call"
    /\ pc' = [pc EXCEPT ![p] = "fuzzy"]
    /\ UNCHANGED <<store, texts, idx, results, memory_hits, fuzzy_hits,
                   openai_hits, translated, err, ret, calls, begin, fz, http, doc>>

\* mutant: the exception is caught and noted, and the loop goes on
ProviderRaisesContinue(p) ==
    /\ pc[p] = "call"
    /\ calls' = [calls EXCEPT ![p] = @ + 1]
    /\ pc' = [pc EXCEPT ![p] = "loop"]
    /\ idx' = [idx EXCEPT ![p] = @ + 1]
    /\ err' = [err EXCEPT ![p] = "ProviderError"]
    /\ UNCHANGED <<store, texts, results, memory_hits, fuzzy_hits,
                   openai_hits, translated, ret, begin, fz, http, doc>>

\* client.chat.completions.create(...) raises; nothing catches it
ProviderRaises(p) ==
    /\ pc[p] = "call"
    /\ calls' = [calls EXCEPT ![p] = @ + 1]
    /\ pc' = [pc EXCEPT ![p] = "error"]
    /\ err' = [err EXCEPT ![p] = "ProviderError"]
    /\ UNCHANGED <<store, texts, idx, results, memory_hits, fuzzy_hits,
                   openai_hits, translated, ret, begin, fz, http, doc>>

\* the write-back of the answer: lines 180-188
Commit(p) ==
    /\ pc[p] = "commit"
    /\ LET text == Unit(p)
           row == NewRow(text, translated[p])
       IN  IF PrimaryKeyViolated(store, row)
           THEN /\ pc' = [pc EXCEPT ![p] = "error"]
                /\ err' = [err EXCEPT ![p] = "IntegrityError"]
                /\ UNCHANGED <<store, openai_hits, results, idx>>
           ELSE /\ store' = Insert(store, row)
                /\ openai_hits' = [openai_hits EXCEPT ![p] = @ + 1]
                /\ results' = [results EXCEPT ![p] = AppendResult(@,
                       Result(text, translated[p], "new", None))]
                /\ idx' = [idx EXCEPT ![p] = @ + 1]
                /\ pc' = [pc EXCEPT ![p] = "loop"]
                /\ err' = err
    /\ UNCHANGED <<texts, memory_hits, fuzzy_hits, translated, ret, calls,
                   begin, fz, http, doc>>

\* the loop is over: lines 190-203 (time_seconds, a wall-clock reading, is left out)
Return(p) ==
    /\ pc[p] = "loop"
    /\ idx[p] > Len(texts[p])
    /\ ret' = [ret EXCEPT ![p] =
           [translations |-> results[p],
            stats |-> [total |-> Len(texts[p]),
                       memory_hits |-> memory_hits[p],
                       fuzzy_hits |-> fuzzy_hits[p],
                       openai_hits |-> openai_hits[p],
                       efficiency |-> Efficiency(memory_hits[p], fuzzy_hits[p],
                                                 Len(texts[p]))]]]
    /\ pc' = [pc EXCEPT ![p] = "done"]
    /\ UNCHANGED <<store, texts, idx, results, memory_hits, fuzzy_hits,
                   openai_hits, translated, err, calls, begin, fz, http, doc>>

Next ==
    \E p \in Runs :
        \/ Start(p)
        \/ Lookup(p)
        \/ Fuzzy(p)
        \/ ProviderReturns(p)
        \/ ProviderRaises(p)
        \/ Commit(p)
        \/ Return(p)

Spec == Init /\ [][Next]_vars

\* a step of translate_batch once it is entered
Advance(p) ==
    \/ Lookup(p)
    \/ Fuzzy(p)
    \/ ProviderReturns(p)
    \/ ProviderRaises(p)
    \/ Commit(p)
    \/ Return(p)

(***************************************************************************)
(* One call of translate_batch with no other request beside it, on         *)
(* batches of up to MaxSolo units.                                         *)
(***************************************************************************)
SoloRun == "r1"

SoloBatches == UNION {[1..n -> Texts] : n \in 0..MaxSolo}

StartSolo ==
    /\ pc[SoloRun] = "idle"
    /\ \E batch \in SoloBatches : Call(SoloRun, batch)
    /\ UNCHANGED http

NextSolo ==
    \/ StartSolo
    \/ Lookup(SoloRun)
    \/ Fuzzy(SoloRun)
    \/ ProviderReturns(SoloRun)
    \/ ProviderRaises(SoloRun)
    \/ Commit(SoloRun)
    \/ Return(SoloRun)

SpecSolo == Init /\ [][NextSolo]_vars

\* the entered call keeps running: the interpreter goes on to its next
\* statement, the table answers, and the provider call returns or raises
FairSolo == SpecSolo /\ WF_vars(Advance(SoloRun))

(***************************************************************************)
(* find_fuzzy_match called directly, on any text, candidate rows and       *)
(* threshold of the model.                                                 *)
(***************************************************************************)
Thresholds == {Frac(0, 1), Frac(1, 2), Frac(9, 10), Frac(20, 21), Frac(1, 1)}

CandRows == {Translation(get_hash(t), t, o) : t \in AllTexts, o \in StoredOutputs}

CandSeqs == UNION {[1..n -> CandRows] : n \in 0..MaxCands}

InitFuzzy ==
    /\ store = <<>>
    /\ pc = [p \in Runs |-> "idle"]
    /\ texts = [p \in Runs |-> <<>>]
    /\ idx = [p \in Runs |-> 1]
    /\ results = [p \in Runs |-> <<>>]
    /\ memory_hits = [p \in Runs |-> 0]
    /\ fuzzy_hits = [p \in Runs |-> 0]
    /\ openai_hits = [p \in Runs |-> 0]
    /\ translated = [p \in Runs |-> Unset]
    /\ err = [p \in Runs |-> NoError]
    /\ ret = [p \in Runs |-> None]
    /\ calls = [p \in Runs |-> 0]
    /\ begin = [p \in Runs |-> None]
    /\ fz \in [text : AllTexts, cands : CandSeqs, threshold : Thresholds,
                called : {FALSE}, out : {NoMatch}]
    /\ http = [p \in Runs |-> None]
    /\ doc = None

CallFuzzy ==
    /\ ~fz.called
    /\ fz' = [fz EXCEPT !.called = TRUE,
                        !.out = find_fuzzy_match(fz.cands, fz.text, fz.threshold)]
    /\ UNCHANGED <<store, pc, locals, http, doc>>

NextFuzzy == CallFuzzy

SpecFuzzy == InitFuzzy /\ [][NextFuzzy]_vars


(***************************************************************************)
(* Documents.  A DOCX document is its body paragraphs' texts and its       *)
(* tables, a table its rows, a row the texts of its cells; no cell is      *)
(* merged, so a row lists each cell once.  An XLSX workbook is its sheets, *)
(* a sheet its rows, a row the values of its cells: None, a number or a    *)
(* string.                                                                 *)
(***************************************************************************)
IsSpace(c) == c \in {" ", "\t", "\n"}

RECURSIVE LStrip(_)
LStrip(t) == IF t # <<>> /\ IsSpace(Head(t)) THEN LStrip(Tail(t)) ELSE t

RECURSIVE RStrip(_)
RStrip(t) ==
    IF t # <<>> /\ IsSpace(t[Len(t)]) THEN RStrip(SubSeq(t, 1, Len(t) - 1)) ELSE t

\* str.strip()
Strip(t) == RStrip(LStrip(t))

StrVal(t) == [type |-> "str", value |-> t]
IntVal(n) == [type |-> "int", value |-> n]

\* `para.text.strip()`, `cell.text.strip()` as a condition
DocxUnitHasText(t) == Strip(t) # <<>>

\* `cell.value and isinstance(cell.value, str) and cell.value.strip()`
XlsxCellHasText(v) ==
    /\ v # None
    /\ IF v.type = "int" THEN v.value # 0 ELSE v.value # <<>>
    /\ v.type = "str"
    /\ Strip(v.value) # <<>>

RECURSIVE ExtractDocxUnits(_)
\* one loop of extract_texts_docx over paragraphs or over the cells of a row
ExtractDocxUnits(units) ==
    IF units = <<>> THEN <<>>
    ELSE (IF DocxUnitHasText(Head(units)) THEN <<Head(units)>> ELSE <<>>)
         \o ExtractDocxUnits(Tail(units))

RECURSIVE ExtractDocxRows(_)
ExtractDocxRows(rows) ==
    IF rows = <<>> THEN <<>>
    ELSE ExtractDocxUnits(Head(rows)) \o ExtractDocxRows(Tail(rows))

RECURSIVE ExtractDocxTables(_)
ExtractDocxTables(tables) ==
    IF tables = <<>> THEN <<>>
    ELSE ExtractDocxRows(Head(tables)) \o ExtractDocxTables(Tail(tables))

extract_texts_docx(d) ==
    ExtractDocxUnits(d.paragraphs) \o ExtractDocxTables(d.tables)

RECURSIVE ExtractXlsxCells(_)
ExtractXlsxCells(cells) ==
    IF cells = <<>> THEN <<>>
    ELSE (IF XlsxCellHasText(Head(cells)) THEN <<Head(cells).value>> ELSE <<>>)
         \o ExtractXlsxCells(Tail(cells))

RECURSIVE ExtractXlsxRows(_)
ExtractXlsxRows(rows) ==
    IF rows = <<>> THEN <<>>
    ELSE ExtractXlsxCells(Head(rows)) \o ExtractXlsxRows(Tail(rows))

RECURSIVE ExtractXlsxSheets(_)
ExtractXlsxSheets(sheets) ==
    IF sheets = <<>> THEN <<>>
    ELSE ExtractXlsxRows(Head(sheets)) \o ExtractXlsxSheets(Tail(sheets))

extract_texts_xlsx(wb) == ExtractXlsxSheets(wb)

\* The loops of replace_texts_docx.  Each takes the units it walks, the
\* translated texts and idx, and gives [out |-> the units after it, idx |-> idx
\* after it]; idx counts from 0 as in the code.
RECURSIVE ReplaceDocxUnits(_, _, _)
ReplaceDocxUnits(units, translated_texts, i) ==
    IF units = <<>> THEN [out |-> <<>>, idx |-> i]
    ELSE LET hit == DocxUnitHasText(Head(units)) /\ i < Len(translated_texts)
             rest == ReplaceDocxUnits(Tail(units), translated_texts,
                                      IF hit THEN i + 1 ELSE i)
         IN  [out |-> <<IF hit THEN translated_texts[i + 1] ELSE Head(units)>>
                      \o rest.out,
              idx |-> rest.idx]

RECURSIVE ReplaceDocxRows(_, _, _)
ReplaceDocxRows(rows, translated_texts, i) ==
    IF rows = <<>> THEN [out |-> <<>>, idx |-> i]
    ELSE LET first == ReplaceDocxUnits(Head(rows), translated_texts, i)
             rest == ReplaceDocxRows(Tail(rows), translated_texts, first.idx)
         IN  [out |-> <<first.out>> \o rest.out, idx |-> rest.idx]

RECURSIVE ReplaceDocxTables(_, _, _)
ReplaceDocxTables(tables, translated_texts, i) ==
    IF tables = <<>> THEN [out |-> <<>>, idx |-> i]
    ELSE LET first == ReplaceDocxRows(Head(tables), translated_texts, i)
             rest == ReplaceDocxTables(Tail(tables), translated_texts, first.idx)
         IN  [out |-> <<first.out>> \o rest.out, idx |-> rest.idx]

\* mutant: the tables are walked before the paragraphs
replace_texts_docx_tables_first(d, translated_texts) ==
    LET tabs == ReplaceDocxTables(d.tables, translated_texts, 0)
        paras == ReplaceDocxUnits(d.paragraphs, translated_texts, tabs.idx)
    IN  [paragraphs |-> paras.out, tables |-> tabs.out]

replace_texts_docx(d, translated_texts) ==
    LET paras == ReplaceDocxUnits(d.paragraphs, translated_texts, 0)
        tabs == ReplaceDocxTables(d.tables, translated_texts, paras.idx)
    IN  [paragraphs |-> paras.out, tables |-> tabs.out]

RECURSIVE ReplaceXlsxCells(_, _, _)
ReplaceXlsxCells(cells, translated_texts, i) ==
    IF cells = <<>> THEN [out |-> <<>>, idx |-> i]
    ELSE LET hit == XlsxCellHasText(Head(cells)) /\ i < Len(translated_texts)
             rest == ReplaceXlsxCells(Tail(cells), translated_texts,
                                      IF hit THEN i + 1 ELSE i)
         IN  [out |-> <<IF hit THEN StrVal(translated_texts[i + 1])
                        ELSE Head(cells)>> \o rest.out,
              idx |-> rest.idx]

RECURSIVE ReplaceXlsxRows(_, _, _)
ReplaceXlsxRows(rows, translated_texts, i) ==
    IF rows = <<>> THEN [out |-> <<>>, idx |-> i]
    ELSE LET first == ReplaceXlsxCells(Head(rows), translated_texts, i)
             rest == ReplaceXlsxRows(Tail(rows), translated_texts, first.idx)
         IN  [out |-> <<first.out>> \o rest.out, idx |-> rest.idx]

RECURSIVE ReplaceXlsxSheets(_, _, _)
ReplaceXlsxSheets(sheets, translated_texts, i) ==
    IF sheets = <<>> THEN [out |-> <<>>, idx |-> i]
    ELSE LET first == ReplaceXlsxRows(Head(sheets), translated_texts, i)
             rest == ReplaceXlsxSheets(Tail(sheets), translated_texts, first.idx)
         IN  [out |-> <<first.out>> \o rest.out, idx |-> rest.idx]

replace_texts_xlsx(wb, translated_texts) ==
    ReplaceXlsxSheets(wb, translated_texts, 0).out

(***************************************************************************)
(* replace_texts_docx and replace_texts_xlsx called directly, on documents *)
(* of up to MaxUnits units in rows of one or two cells and tables (sheets) *)
(* of one or two rows.                                                     *)
(***************************************************************************)
DocxUnits == {<<" ">>, <<"a">>, <<" ", "b">>}
XlsxValues == {None, IntVal(7), StrVal(<<" ">>), StrVal(<<"a">>), StrVal(<<" ", "b">>)}
TranslatedUnits == {<<"x">>, <<"y">>}
RowWidths == {1, 2}
TableHeights == {1, 2}

RECURSIVE Chunks(_, _)
\* seq cut into pieces of n elements, the last one of what is left
Chunks(seq, n) ==
    IF seq = <<>> THEN <<>>
    ELSE IF Len(seq) <= n THEN <<seq>>
    ELSE <<SubSeq(seq, 1, n)>> \o Chunks(SubSeq(seq, n + 1, Len(seq)), n)

\* the lists of up to n of the values
FlatDocs(values, n) == UNION {[1..m -> values] : m \in 0..n}

\* the DOCX documents of up to n units: the first k are paragraphs, the rest
\* the cells of tables
DocxDocsOf(values, n) ==
    {[paragraphs |-> SubSeq(f, 1, k),
      tables |-> Chunks(Chunks(SubSeq(f, k + 1, Len(f)), w), h)] :
         <<f, k, w, h>> \in {x \in FlatDocs(values, n) \X (0..n)
                                   \X RowWidths \X TableHeights :
                                 x[2] <= Len(x[1])}}

\* the XLSX workbooks of up to n cells
XlsxDocsOf(values, n) ==
    {Chunks(Chunks(f, w), h) :
         <<f, w, h>> \in FlatDocs(values, n) \X RowWidths \X TableHeights}

DocxDocs == DocxDocsOf(DocxUnits, MaxUnits)

XlsxDocs == XlsxDocsOf(XlsxValues, MaxUnits)

TranslatedLists == UNION {[1..n -> TranslatedUnits] : n \in 0..MaxTranslated}

InitDoc ==
    /\ store = <<>>
    /\ pc = [p \in Runs |-> "idle"]
    /\ texts = [p \in Runs |-> <<>>]
    /\ idx = [p \in Runs |-> 1]
    /\ results = [p \in Runs |-> <<>>]
    /\ memory_hits = [p \in Runs |-> 0]
    /\ fuzzy_hits = [p \in Runs |-> 0]
    /\ openai_hits = [p \in Runs |-> 0]
    /\ translated = [p \in Runs |-> Unset]
    /\ err = [p \in Runs |-> NoError]
    /\ ret = [p \in Runs |-> None]
    /\ calls = [p \in Runs |-> 0]
    /\ begin = [p \in Runs |-> None]
    /\ fz = None
    /\ http = [p \in Runs |-> None]
    /\ \/ doc \in [ext : {"docx"}, original : DocxDocs,
                    translated_texts : TranslatedLists,
                    called : {FALSE}, out : {None}]
       \/ doc \in [ext : {"xlsx"}, original : XlsxDocs,
                    translated_texts : TranslatedLists,
                    called : {FALSE}, out : {None}]

CallReplaceDocx ==
    /\ doc.ext = "docx"
    /\ ~doc.called
    /\ doc' = [doc EXCEPT !.called = TRUE,
                          !.out = replace_texts_docx(doc.original,
                                                     doc.translated_texts)]
    /\ UNCHANGED <<store, pc, locals, fz, http>>

CallReplaceXlsx ==
    /\ doc.ext = "xlsx"
    /\ ~doc.called
    /\ doc' = [doc EXCEPT !.called = TRUE,
                          !.out = [sheets |-> replace_texts_xlsx(doc.original,
                                                     doc.translated_texts)]]
    /\ UNCHANGED <<store, pc, locals, fz, http>>

NextDoc == CallReplaceDocx \/ CallReplaceXlsx

SpecDoc == InitDoc /\ [][NextDoc]_vars

(***************************************************************************)
(* The /translate handler, serving one request.  An uploaded file is a     *)
(* filename and a content of a kind: a DOCX document, an XLSX workbook or  *)
(* UTF-8 text.  A file named as DOCX, XLSX or TXT has content of that      *)
(* kind; any other file is given text content, which the handler never     *)
(* reads.                                                                  *)
(***************************************************************************)
Docx == <<"d", "o", "c", "x">>
Xlsx == <<"x", "l", "s", "x">>
Txt == <<"t", "x", "t">>

UpperCase == <<"A", "B", "C", "D", "E", "F", "G", "H", "I", "J", "K", "L", "M",
               "N", "O", "P", "Q", "R", "S", "T", "U", "V", "W", "X", "Y", "Z">>
LowerCase == <<"a", "b", "c", "d", "e", "f", "g", "h", "i", "j", "k", "l", "m",
               "n", "o", "p", "q", "r", "s", "t", "u", "v", "w", "x", "y", "z">>

\* str.lower() on ASCII
Lower(t) ==
    [i \in 1..Len(t) |->
        IF \E k \in 1..Len(UpperCase) : UpperCase[k] = t[i]
        THEN LowerCase[CHOOSE k \in 1..Len(UpperCase) : UpperCase[k] = t[i]]
        ELSE t[i]]

\* t.split(sep)[-1]: what follows the last sep, all of t when it has none
SplitLast(t, sep) ==
    LET at == {i \in 1..Len(t) : t[i] = sep}
        last == IF at = {} THEN 0 ELSE CHOOSE i \in at : \A j \in at : j <= i
    IN  SubSeq(t, last + 1, Len(t))

\* file.filename.split(".")[-1].lower()
Ext(filename) == Lower(SplitLast(filename, "."))

RECURSIVE SplitLines(_)
\* str.splitlines() of a text whose only line boundary is "\n"
SplitLines(t) ==
    IF t = <<>> THEN <<>>
    ELSE LET at == {i \in 1..Len(t) : t[i] = "\n"}
             first == IF at = {} THEN 0
                      ELSE CHOOSE i \in at : \A j \in at : i <= j
         IN  IF first = 0 THEN <<t>>
             ELSE <<SubSeq(t, 1, first - 1)>>
                  \o SplitLines(SubSeq(t, first + 1, Len(t)))

extract_texts_txt(file_bytes) ==
    SelectSeq(SplitLines(file_bytes), LAMBDA line : Strip(line) # <<>>)

RECURSIVE JoinLines(_)
JoinLines(lines) ==
    IF lines = <<>> THEN <<>>
    ELSE IF Len(lines) = 1 THEN Head(lines)
    ELSE Head(lines) \o <<"\n">> \o JoinLines(Tail(lines))

\* the units of uploaded files: texts of the model and a blank unit
UploadUnits == Texts \cup {<<" ">>}
UploadCells == {StrVal(u) : u \in UploadUnits} \cup {None, IntVal(7)}

Filenames ==
    {<<"a", ".", "d", "o", "c", "x">>, <<"a", ".", "X", "l", "s", "x">>,
     <<"a", ".", "b", ".", "t", "x", "t">>, <<"a", ".", "p", "d", "f">>,
     <<"a", ".", "d", "o", "c">>, <<"d", "o", "c">>,
     <<"a", ".", "t", "x", "t", ".">>}

Contents(kind) ==
    IF kind = Docx THEN DocxDocsOf(UploadUnits, MaxUpload)
    ELSE IF kind = Xlsx THEN XlsxDocsOf(UploadCells, MaxUpload)
    ELSE {JoinLines(l) : l \in FlatDocs(UploadUnits, MaxUpload)}

Uploads ==
    UNION {[filename : {f}, content : Contents(Ext(f))] : f \in Filenames}

\* mutant: no extension is unsupported
UnsupportedNever(ext) == FALSE

\* the else branch of the handler: ext is none of "docx", "xlsx", "txt"
Unsupported(ext) == ext # Docx /\ ext # Xlsx /\ ext # Txt

\* a response that has not been sent
NoStatus == 0

\* await file.read() up to the call of translate_batch, or the 400 response
TranslateRequest(p) ==
    /\ http[p] = None
    /\ pc[p] = "idle"
    /\ \E file \in Uploads :
           LET content == file.content
               ext == Ext(file.filename)
           IN  IF Unsupported(ext)
               THEN /\ http' = [http EXCEPT ![p] =
                               [filename |-> file.filename, status |-> 400,
                                content |-> [text |-> "Unsupported file type"]]]
                    /\ UNCHANGED <<store, pc, locals, fz, doc>>
               ELSE /\ http' = [http EXCEPT ![p] =
                               [filename |-> file.filename, status |-> NoStatus,
                                content |-> None]]
                    /\ Call(p, IF ext = Docx THEN extract_texts_docx(content)
                                ELSE IF ext = Xlsx THEN extract_texts_xlsx(content)
                                ELSE extract_texts_txt(content))

\* return JSONResponse(content=result)
TranslateResponds(p) ==
    /\ http[p] # None
    /\ http[p].status = NoStatus
    /\ pc[p] = "done"
    /\ http' = [http EXCEPT ![p].status = 200, ![p].content = ret[p]]
    /\ UNCHANGED <<store, pc, locals, fz, doc>>

\* an exception leaves translate_batch and the handler: the server answers 500
TranslateFails(p) ==
    /\ http[p] # None
    /\ http[p].status = NoStatus
    /\ pc[p] = "error"
    /\ http' = [http EXCEPT ![p].status = 500,
                            ![p].content = [text |-> "Internal Server Error"]]
    /\ UNCHANGED <<store, pc, locals, fz, doc>>

NextHttp ==
    \/ TranslateRequest(SoloRun)
    \/ Lookup(SoloRun)
    \/ Fuzzy(SoloRun)
    \/ ProviderReturns(SoloRun)
    \/ ProviderRaises(SoloRun)
    \/ Commit(SoloRun)
    \/ Return(SoloRun)
    \/ TranslateResponds(SoloRun)
    \/ TranslateFails(SoloRun)

SpecHttp == Init /\ [][NextHttp]_vars

(***************************************************************************)
(* Properties of translate_batch and find_fuzzy_match.                     *)
(***************************************************************************)
Started(p) == pc[p] # "idle"
Other(p) == Runs \ {p}

\* no other request has overlapped p so far
Alone(p) ==
    /\ Started(p)
    /\ \A q \in Other(p) :
           \/ ~Started(q)
           \/ q \in begin[p].ended
           \/ p \in begin[q].ended

\* q ended before p began
Before(q, p) == Started(p) /\ q \in begin[p].ended

RowsWithKey(rows, h) == {i \in 1..Len(rows) : rows[i].hash = h}

\* the stored originals more similar to text than 0.9
Above09(rows, text) ==
    {i \in 1..Len(rows) : FracGt(Ratio(text, rows[i].original), Frac(9, 10))}

\* the stored originals exactly 0.9 similar to text
At09(rows, text) ==
    {i \in 1..Len(rows) : FracEq(Ratio(text, rows[i].original), Frac(9, 10))}

Last(seq) == seq[Len(seq)]

\* p's step appends one result
Appends(p) == results'[p] # results[p]

\* p takes a step
Steps(p) == pc'[p] # pc[p] \/ idx'[p] # idx[p]

\* C1: a request that runs alone on an empty table and whose first two units
\* are the same text resolves the first as 'new' with one provider call and
\* the second as 'exact', with the translation stored for the first and no
\* further provider call.
C1_IntraBatchVisibility ==
    \A p \in Runs :
        ( /\ Alone(p)
          /\ begin[p].store = <<>>
          /\ Len(texts[p]) >= 2
          /\ texts[p][1] = texts[p][2] )
        => /\ Len(results[p]) >= 1 =>
                  /\ results[p][1].match_type = "new"
                  /\ calls[p] >= 1
           /\ Len(results[p]) >= 2 =>
                  /\ results[p][2].match_type = "exact"
                  /\ results[p][2].translated = results[p][1].translated
           /\ idx[p] <= 2 => calls[p] <= 1
           /\ (idx[p] = 3 /\ pc[p] \in {"loop", "done"}) => calls[p] = 1

C1_Witness ==
    \E p \in Runs :
        /\ Alone(p)
        /\ begin[p].store = <<>>
        /\ pc[p] = "done"
        /\ Len(texts[p]) = 2
        /\ texts[p][1] = texts[p][2]
        /\ results[p][2].match_type = "exact"
        /\ calls[p] = 1

\* the texts a request has written or tried to write to the table
Written(p) ==
    {results[p][i].original :
         i \in {k \in 1..Len(results[p]) : results[p][k].match_type = "new"}}
    \cup (IF err[p] = "IntegrityError" THEN {Unit(p)} ELSE {})

\* C2: under any interleaving of the requests no two rows of the table share
\* a fingerprint, and a text a request has written, or tried to write, has
\* exactly one row.
C2_OneRowPerFingerprint ==
    /\ WellKeyed(store)
    /\ \A p \in Runs : \A t \in Written(p) :
           Cardinality(RowsWithKey(store, get_hash(t))) = 1

\* both requests have ended after putting the same new text to the provider
C2_Witness ==
    \E t \in Texts :
        /\ \A p \in Runs :
               /\ Ended(p)
               /\ t \in Written(p)
               /\ RowsWithKey(begin[p].store, get_hash(t)) = {}
        /\ Cardinality(RowsWithKey(store, get_hash(t))) = 1

\* C3: a write of a fingerprint that is already in the table leaves the table
\* as it is, raises nothing, and the request goes on to its next unit.
C3_InsertIfAbsentIsNoOp ==
    [][\A p \in Runs :
           ( /\ pc[p] = "commit"
             /\ Steps(p)
             /\ RowsWithKey(store, get_hash(Unit(p))) # {} )
           => /\ store' = store
              /\ err'[p] = NoError
              /\ pc'[p] = "loop"
              /\ idx'[p] = idx[p] + 1]_vars

\* C4 as claimed: a text a completed request translated is resolved 'exact',
\* with the same translation, by a request made after it ended.
C4_IdempotentAnyTier ==
    \A p, q \in Runs :
        (Before(q, p) /\ pc[q] = "done")
        => \A i \in 1..Len(results[q]) : \A j \in 1..Len(results[p]) :
               results[p][j].original = results[q][i].original
               => /\ results[p][j].match_type = "exact"
                  /\ results[p][j].translated = ret[q].translations[i].translated

\* C4 as amended: a text a completed request resolved as 'exact' or 'new' is
\* resolved 'exact', with the same translation, by a request made after it
\* ended.
C4_IdempotentStored ==
    \A p, q \in Runs :
        (Before(q, p) /\ pc[q] = "done")
        => \A i \in 1..Len(results[q]) : \A j \in 1..Len(results[p]) :
               ( /\ results[p][j].original = results[q][i].original
                 /\ ret[q].translations[i].match_type \in {"exact", "new"} )
               => /\ results[p][j].match_type = "exact"
                  /\ results[p][j].translated = ret[q].translations[i].translated

C4_Witness ==
    \E p, q \in Runs :
        /\ Before(q, p)
        /\ pc[q] = "done"
        /\ pc[p] = "done"
        /\ \E i \in 1..Len(results[q]) : \E j \in 1..Len(results[p]) :
               /\ results[p][j].original = results[q][i].original
               /\ results[q][i].match_type = "new"
               /\ results[p][j].match_type = "exact"

\* C5: the translations a request returns are as many as its texts, and the
\* i-th has the i-th text as its original.
C5_Ordering ==
    \A p \in Runs :
        pc[p] = "done"
        => /\ Len(ret[p].translations) = Len(texts[p])
           /\ \A i \in 1..Len(texts[p]) :
                  ret[p].translations[i].original = texts[p][i]

\* a returned batch of two different texts resolved by two different tiers
C5_Witness ==
    \E p \in Runs :
        /\ pc[p] = "done"
        /\ Len(texts[p]) = 2
        /\ texts[p][1] # texts[p][2]
        /\ ret[p].translations[1].match_type # ret[p].translations[2].match_type

\* C6: a unit whose fingerprint is in the table when it is looked up is
\* tagged 'exact'; a unit is tagged 'fuzzy' only after its exact lookup missed
\* and when a stored original is more than 0.9 similar; the provider is called
\* only after both lookups missed.
C6_TierOrder ==
    [][\A p \in Runs :
           /\ ( /\ pc[p] = "loop"
                /\ idx[p] <= Len(texts[p])
                /\ Steps(p)
                /\ RowsWithKey(store, get_hash(Unit(p))) # {} )
              => /\ Appends(p)
                 /\ Last(results'[p]).match_type = "exact"
                 /\ calls'[p] = calls[p]
           /\ (pc'[p] = "fuzzy" /\ pc[p] # "fuzzy")
              => /\ pc[p] = "loop"
                 /\ RowsWithKey(store, get_hash(Unit(p))) = {}
           /\ (Appends(p) /\ Last(results'[p]).match_type = "fuzzy")
              => /\ pc[p] = "fuzzy"
                 /\ Above09(store, Unit(p)) # {}
           /\ (pc'[p] = "call" /\ pc[p] # "call")
              => /\ pc[p] = "fuzzy"
                 /\ Above09(store, Unit(p)) = {}
           /\ calls'[p] # calls[p] => pc[p] = "call"]_vars

\* a unit was tagged 'exact' although a different stored original is a fuzzy
\* candidate for it, and another unit went to the provider
C6_Witness ==
    \E p \in Runs : \E i, j \in 1..Len(results[p]) :
        /\ results[p][i].match_type = "exact"
        /\ \E k \in Above09(store, results[p][i].original) :
               store[k].original # results[p][i].original
        /\ results[p][j].match_type = "new"

\* C7: a unit with no exact match whose best similarity to the stored
\* originals is exactly 0.9 is not tagged 'fuzzy' but put to the provider, and
\* its answer is stored as a new row; one whose best similarity is above 0.9
\* is tagged 'fuzzy' without a provider call.
C7_ThresholdBoundary ==
    [][\A p \in Runs :
           /\ (pc[p] = "fuzzy" /\ Steps(p))
              => /\ (At09(store, Unit(p)) # {} /\ Above09(store, Unit(p)) = {})
                    => /\ pc'[p] = "call"
                       /\ ~Appends(p)
                 /\ Above09(store, Unit(p)) # {}
                    => /\ Appends(p)
                       /\ Last(results'[p]).match_type = "fuzzy"
                       /\ FracGt(Last(results'[p]).similarity, Frac(9, 10))
                       /\ calls'[p] = calls[p]
                       /\ pc'[p] = "loop"
           /\ (pc[p] = "commit" /\ Appends(p))
              => /\ Last(results'[p]).match_type = "new"
                 /\ store' = Append(store, NewRow(Unit(p), translated[p]))]_vars

\* one request stored a unit that is exactly 0.9 similar to a stored original
\* as new, and a request resolved a unit as fuzzy
C7_Witness ==
    /\ \E p \in Runs : \E i \in 1..Len(results[p]) :
           /\ results[p][i].match_type = "new"
           /\ At09(begin[p].store, results[p][i].original) # {}
           /\ Len(begin[p].store) = 1
    /\ \E p \in Runs : \E i \in 1..Len(results[p]) :
           /\ results[p][i].match_type = "fuzzy"
           /\ results[p][i].similarity = Frac(20, 21)

RatioTo(cands, text, k) == Ratio(text, cands[k].original)

\* the first candidate with the highest ratio
BestIndex(cands, text) ==
    CHOOSE k \in 1..Len(cands) :
        /\ \A j \in 1..Len(cands) :
               FracGe(RatioTo(cands, text, k), RatioTo(cands, text, j))
        /\ \A j \in 1..(k - 1) :
               FracGt(RatioTo(cands, text, k), RatioTo(cands, text, j))

\* C8 as claimed: find_fuzzy_match returns the first candidate with the
\* highest ratio, and that ratio, when the ratio is >= threshold, and
\* (None, 0) otherwise.
C8_BestMatchAnyThreshold ==
    fz.called =>
        IF /\ fz.cands # <<>>
           /\ FracGe(RatioTo(fz.cands, fz.text, BestIndex(fz.cands, fz.text)),
                     fz.threshold)
        THEN fz.out = <<fz.cands[BestIndex(fz.cands, fz.text)],
                        RatioTo(fz.cands, fz.text, BestIndex(fz.cands, fz.text))>>
        ELSE fz.out = NoMatch

\* C8 as amended: find_fuzzy_match returns the first candidate with the
\* highest ratio, and that ratio, when the ratio is >= threshold and above 0,
\* and (None, 0) otherwise.
C8_BestMatchPositive ==
    fz.called =>
        IF /\ fz.cands # <<>>
           /\ FracGe(RatioTo(fz.cands, fz.text, BestIndex(fz.cands, fz.text)),
                     fz.threshold)
           /\ FracGt(RatioTo(fz.cands, fz.text, BestIndex(fz.cands, fz.text)),
                     Frac(0, 1))
        THEN fz.out = <<fz.cands[BestIndex(fz.cands, fz.text)],
                        RatioTo(fz.cands, fz.text, BestIndex(fz.cands, fz.text))>>
        ELSE fz.out = NoMatch

\* two different candidates share the highest ratio, which reaches the
\* threshold, and the first of them is returned
C8_Witness ==
    /\ fz.called
    /\ Len(fz.cands) = 2
    /\ fz.cands[1] # fz.cands[2]
    /\ FracEq(RatioTo(fz.cands, fz.text, 1), RatioTo(fz.cands, fz.text, 2))
    /\ FracGe(RatioTo(fz.cands, fz.text, 1), fz.threshold)
    /\ fz.out[1] = fz.cands[1]

\* C9: a step that tags a unit 'exact' or 'fuzzy' leaves the table as it is;
\* the table changes only in the write-back of a request whose provider call
\* answered, which appends one row: the unit's fingerprint, the unit, the answer.
C9_HitsDoNotWrite ==
    [][/\ \A p \in Runs :
              (Appends(p) /\ Last(results'[p]).match_type \in {"exact", "fuzzy"})
              => store' = store
       /\ store' # store
          => \E p \in Runs :
                 /\ pc[p] = "commit"
                 /\ translated[p] \in Outputs
                 /\ calls[p] > 0
                 /\ Len(store') = Len(store) + 1
                 /\ \A i \in 1..Len(store) : store'[i] = store[i]
                 /\ Last(store') = [hash |-> get_hash(Unit(p)),
                                    original |-> Unit(p),
                                    translated |-> translated[p]]
                 /\ Appends(p)
                 /\ Last(results'[p]).match_type = "new"]_vars

\* the table has grown while a request got an exact and a fuzzy hit
C9_Witness ==
    \E p \in Runs :
        /\ Started(p)
        /\ Len(store) > Len(begin[p].store)
        /\ \E i, j \in 1..Len(results[p]) :
               /\ results[p][i].match_type = "exact"
               /\ results[p][j].match_type = "fuzzy"

\* the rows a request has written
OwnRows(p) ==
    {NewRow(results[p][i].original, results[p][i].translated) :
         i \in {k \in 1..Len(results[p]) : results[p][k].match_type = "new"}}

StoredRows == {store[i] : i \in 1..Len(store)}

\* C10: when the provider raises the error leaves translate_batch: nothing is
\* returned, the request takes no further step (no later unit, no second
\* call), the failing unit gets no row, and the rows the request wrote for
\* earlier units stay in the table.
C10_ProviderFailureAborts ==
    [][\A p \in Runs :
           /\ (pc[p] = "call" /\ pc'[p] = "error")
              => /\ err'[p] = "ProviderError"
                 /\ store' = store
                 /\ results'[p] = results[p]
                 /\ idx'[p] = idx[p]
                 /\ Alone(p) => RowsWithKey(store', get_hash(Unit(p))) = {}
           /\ err[p] = "ProviderError"
              => /\ pc[p] = "error"
                 /\ ret[p] = None
                 /\ pc'[p] = pc[p]
                 /\ idx'[p] = idx[p]
                 /\ results'[p] = results[p]
                 /\ calls'[p] = calls[p]
                 /\ ret'[p] = ret[p]
                 /\ err'[p] = err[p]
                 /\ OwnRows(p) \subseteq StoredRows
                 /\ OwnRows(p) \subseteq {store'[i] : i \in 1..Len(store')}]_vars

\* the provider raised on the second unit after the first was stored, and the
\* other request went on afterwards
C10_Witness ==
    \E p \in Runs : \E q \in Other(p) :
        /\ err[p] = "ProviderError"
        /\ idx[p] = 2
        /\ results[p][1].match_type = "new"
        /\ Before(p, q)
        /\ pc[q] = "done"

\* C11: in every state, under any interleaving, every row's key is get_hash
\* of its original, and no two rows share a key.
C11_StoreKeyInvariant ==
    /\ \A i \in 1..Len(store) : store[i].hash = get_hash(store[i].original)
    /\ \A i, j \in 1..Len(store) : store[i].hash = store[j].hash => i = j

\* both requests have written rows, of different texts, to the table
C11_Witness ==
    /\ \A p \in Runs : OwnRows(p) # {}
    /\ \E p \in Runs : \E q \in Other(p) :
           \E r \in OwnRows(p) : \E u \in OwnRows(q) : r.original # u.original
    /\ Len(store) >= 2

\* C12: a row once in the table stays at its place with its fields as they
\* are, whatever the requests do; the table only grows.
C12_AppendOnly ==
    [][/\ Len(store') >= Len(store)
       /\ \A i \in 1..Len(store) : store'[i] = store[i]]_vars

\* the table holds a row from before the requests and a row a request wrote,
\* and both requests have ended
C12_Witness ==
    /\ \A p \in Runs : Ended(p) /\ Len(begin[p].store) >= 1
    /\ \E p \in Runs : OwnRows(p) # {}
    /\ Len(store) >= 2

\* the results of a given match type
OfType(rs, type) == {i \in 1..Len(rs) : rs[i].match_type = type}

\* C13: the efficiency a call returns is 100 * (exact + fuzzy results) / total
\* to the nearest hundredth when total > 0 (here in hundredths of a percent),
\* and 0 when total = 0; 3 exact, 2 fuzzy and 5 remote hits of 10 give 50.00.
C13_EfficiencyFormula ==
    /\ Efficiency(3, 2, 10) = 5000
    /\ \A p \in Runs :
           pc[p] = "done" =>
               LET st == ret[p].stats
                   hits == Cardinality(OfType(ret[p].translations, "exact"))
                           + Cardinality(OfType(ret[p].translations, "fuzzy"))
                   e == st.efficiency
               IN  /\ st.total = Len(texts[p])
                   /\ st.memory_hits + st.fuzzy_hits = hits
                   /\ st.total = 0 => e = 0
                   /\ st.total > 0 =>
                          /\ 2 * (e * st.total - hits * 10000) <= st.total
                          /\ 2 * (hits * 10000 - e * st.total) < st.total

\* a returned call with two hits out of three units: 66.67
C13_Witness ==
    \E p \in Runs :
        /\ pc[p] = "done"
        /\ ret[p].stats.total = 3
        /\ ret[p].stats.memory_hits + ret[p].stats.fuzzy_hits = 2
        /\ ret[p].stats.efficiency = 6667

\* C14: a call on the empty batch raises nothing, calls no provider, leaves
\* the table as it found it, and returns no translations and stats that are
\* all 0, efficiency included.
C14_EmptyBatch ==
    \A p \in Runs :
        (Started(p) /\ texts[p] = <<>>)
        => /\ pc[p] \in {"loop", "done"}
           /\ err[p] = NoError
           /\ calls[p] = 0
           /\ store = begin[p].store
           /\ pc[p] = "done" =>
                  ret[p] = [translations |-> <<>>,
                            stats |-> [total |-> 0, memory_hits |-> 0,
                                       fuzzy_hits |-> 0, openai_hits |-> 0,
                                       efficiency |-> 0]]

\* a call on the empty batch has returned, with a row in the table
C14_Witness ==
    \E p \in Runs :
        /\ pc[p] = "done"
        /\ texts[p] = <<>>
        /\ store # <<>>

\* C15: every result is tagged exact, fuzzy or new.  An exact result has
\* similarity 1.0 and the translation of the row with the unit's fingerprint;
\* a fuzzy result has the ratio and the translation of the matched row, the
\* first of the rows most similar to the unit, its ratio above 0.9 and at
\* most 1; a new result has similarity None and the provider's answer.
C15_ResultTagging ==
    [][\A p \in Runs :
           Appends(p) =>
               LET r == Last(results'[p])
                   text == Unit(p)
               IN  /\ results'[p] = Append(results[p], r)
                   /\ r.match_type \in {"exact", "fuzzy", "new"}
                   /\ r.match_type = "exact" =>
                          /\ r.similarity = Frac(1, 1)
                          /\ \E i \in RowsWithKey(store, get_hash(text)) :
                                 r.translated = store[i].translated
                   /\ r.match_type = "fuzzy" =>
                          /\ r.similarity = RatioTo(store, text, BestIndex(store, text))
                          /\ r.translated = store[BestIndex(store, text)].translated
                          /\ FracGt(r.similarity, Frac(9, 10))
                          /\ FracGe(Frac(1, 1), r.similarity)
                   /\ r.match_type = "new" =>
                          /\ r.similarity = None
                          /\ r.translated = translated[p]
                          /\ translated[p] \in Outputs]_vars

\* the two requests hold an exact and a fuzzy result between them, and one of
\* them a new result
C15_Witness ==
    \E p \in Runs : \E q \in Other(p) :
        /\ OfType(results[p] \o results[q], "exact") # {}
        /\ OfType(results[p] \o results[q], "fuzzy") # {}
        /\ OfType(results[p], "new") # {}

\* C16: at every point of a call each counter is the number of results so far
\* of its match type, so the three add up to the number of results; in what
\* the call returns they add up to total = len(texts).
C16_CounterPartition ==
    \A p \in Runs :
        /\ memory_hits[p] = Cardinality(OfType(results[p], "exact"))
        /\ fuzzy_hits[p] = Cardinality(OfType(results[p], "fuzzy"))
        /\ openai_hits[p] = Cardinality(OfType(results[p], "new"))
        /\ memory_hits[p] + fuzzy_hits[p] + openai_hits[p] = Len(results[p])
        /\ pc[p] = "done" =>
               LET st == ret[p].stats
               IN  /\ st.memory_hits = memory_hits[p]
                   /\ st.fuzzy_hits = fuzzy_hits[p]
                   /\ st.openai_hits = openai_hits[p]
                   /\ st.memory_hits + st.fuzzy_hits + st.openai_hits = st.total
                   /\ st.total = Len(texts[p])

\* a returned call of two units with two different counters at 1
C16_Witness ==
    \E p \in Runs :
        /\ pc[p] = "done"
        /\ ret[p].stats.total = 2
        /\ ret[p].stats.fuzzy_hits = 1
        /\ ret[p].stats.openai_hits = 1

\* the different texts of a batch
Distinct(batch) == {batch[i] : i \in 1..Len(batch)}

\* C17: when a call that no other request runs beside has returned, its
\* provider calls are as many as stats.openai_hits and as the rows it added
\* to the table, and no more than the different texts of its batch.
C17_CallsMatchWrites ==
    \A p \in Runs :
        pc[p] = "done"
        => /\ calls[p] = ret[p].stats.openai_hits
           /\ calls[p] = Len(store) - Len(begin[p].store)
           /\ calls[p] = Cardinality(OwnRows(p))
           /\ calls[p] <= Cardinality(Distinct(texts[p]))

\* a returned call with a repeated text and two provider calls
C17_Witness ==
    \E p \in Runs :
        /\ pc[p] = "done"
        /\ calls[p] = 2
        /\ Cardinality(Distinct(texts[p])) < Len(texts[p])

\* C18: if every provider call returns or raises, a call of translate_batch
\* ends, returning as many results as it has units or aborting with an
\* error; until then it handles its units one by one in input order, each at
\* most once, and once ended it does nothing more.
C18_BatchTerminates ==
    /\ \A p \in Runs : Started(p) ~> Ended(p)
    /\ [][\A p \in Runs :
              /\ idx'[p] \in {idx[p], idx[p] + 1}
              /\ Appends(p) =>
                     /\ results'[p] = Append(results[p], Last(results'[p]))
                     /\ Last(results'[p]).original = texts[p][idx[p]]
                     /\ idx'[p] = idx[p] + 1
              /\ idx'[p] # idx[p] => Appends(p)
              /\ (Started(p) /\ ~Ended(p)) => idx[p] = Len(results[p]) + 1
              /\ Started(p) => texts'[p] = texts[p]
              /\ (pc'[p] = "done" /\ pc[p] # "done") =>
                     /\ Len(ret'[p].translations) = Len(texts[p])
                     /\ ret'[p].translations = results[p]
              /\ (pc'[p] = "error" /\ pc[p] # "error") =>
                     /\ err'[p] # NoError
                     /\ ret'[p] = None
              /\ Ended(p) =>
                     /\ pc'[p] = pc[p]
                     /\ idx'[p] = idx[p]
                     /\ results'[p] = results[p]
                     /\ ret'[p] = ret[p]
                     /\ calls'[p] = calls[p]]_vars

\* a call has aborted at its third unit, after a hit and a stored answer
C18_Witness ==
    \E p \in Runs :
        /\ pc[p] = "error"
        /\ idx[p] = 3
        /\ OfType(results[p], "new") # {}
        /\ OfType(results[p], "new") # {1, 2}


(***************************************************************************)
(* Properties of replace_texts_docx and replace_texts_xlsx.                *)
(***************************************************************************)
RECURSIVE Concat(_)
Concat(seqs) == IF seqs = <<>> THEN <<>> ELSE Head(seqs) \o Concat(Tail(seqs))

\* the units of a document in the order of extraction: the paragraphs, then
\* the cells table by table and row by row; the cells sheet by sheet and row
\* by row
UnitsOfDocx(d) == d.paragraphs \o Concat(Concat(d.tables))
UnitsOfXlsx(wb) == Concat(Concat(wb))

NonBlankDocx(u) == \E i \in 1..Len(u) : ~IsSpace(u[i])
NonBlankXlsx(v) ==
    /\ v # None
    /\ v.type = "str"
    /\ \E i \in 1..Len(v.value) : ~IsSpace(v.value[i])

\* how many of the units numbered in N come at or before unit i
RankIn(N, i) == Cardinality({j \in N : j <= i})

\* after holds translated_texts[k] in the k-th unit of N while there is one,
\* and what before holds everywhere else
Reinserted(before, after, N, translated_texts, Cell(_)) ==
    /\ Len(after) = Len(before)
    /\ \A i \in 1..Len(before) :
           after[i] = IF i \in N /\ RankIn(N, i) <= Len(translated_texts)
                      THEN Cell(translated_texts[RankIn(N, i)])
                      ELSE before[i]

\* extracted lists the texts of the units of N in their order
ExtractedInOrder(before, N, extracted, Text(_)) ==
    /\ Len(extracted) = Cardinality(N)
    /\ \A i \in N : extracted[RankIn(N, i)] = Text(before[i])

SameShapeDocx(d, e) ==
    /\ Len(e.paragraphs) = Len(d.paragraphs)
    /\ Len(e.tables) = Len(d.tables)
    /\ \A t \in 1..Len(d.tables) :
           /\ Len(e.tables[t]) = Len(d.tables[t])
           /\ \A r \in 1..Len(d.tables[t]) :
                  Len(e.tables[t][r]) = Len(d.tables[t][r])

SameShapeXlsx(wb, xb) ==
    /\ Len(xb) = Len(wb)
    /\ \A t \in 1..Len(wb) :
           /\ Len(xb[t]) = Len(wb[t])
           /\ \A r \in 1..Len(wb[t]) : Len(xb[t][r]) = Len(wb[t][r])

PlainText(t) == t
CellText(v) == v.value

ReinsertedDocx ==
    LET before == UnitsOfDocx(doc.original)
        N == {i \in 1..Len(before) : NonBlankDocx(before[i])}
    IN  /\ SameShapeDocx(doc.original, doc.out)
        /\ Reinserted(before, UnitsOfDocx(doc.out), N, doc.translated_texts,
                      PlainText)
        /\ ExtractedInOrder(before, N, extract_texts_docx(doc.original),
                            PlainText)

ReinsertedXlsx ==
    LET before == UnitsOfXlsx(doc.original)
        N == {i \in 1..Len(before) : NonBlankXlsx(before[i])}
    IN  /\ SameShapeXlsx(doc.original, doc.out.sheets)
        /\ Reinserted(before, UnitsOfXlsx(doc.out.sheets), N,
                      doc.translated_texts, StrVal)
        /\ ExtractedInOrder(before, N, extract_texts_xlsx(doc.original),
                            CellText)

\* C19: replace_texts_docx and replace_texts_xlsx write translated_texts[i]
\* into the i-th non-blank unit of the original document, counted in the order
\* in which the matching extract_texts function lists the units' texts; a
\* non-blank unit past the end of translated_texts keeps its text, and a blank
\* unit (or a cell that holds no string) is never written.
C19_ReinsertionOrder ==
    (doc # None /\ doc.called) =>
        IF doc.ext = "docx" THEN ReinsertedDocx ELSE ReinsertedXlsx

\* a DOCX document with a blank unit and three non-blank ones, of which a
\* paragraph took the first of two translated texts, a table cell the second,
\* and the last cell kept its text
C19_Witness ==
    /\ doc # None
    /\ doc.called
    /\ doc.ext = "docx"
    /\ Len(doc.translated_texts) = 2
    /\ doc.translated_texts[1] # doc.translated_texts[2]
    /\ LET before == UnitsOfDocx(doc.original)
           after == UnitsOfDocx(doc.out)
       IN  /\ Len(before) = 4
           /\ Cardinality({i \in 1..4 : NonBlankDocx(before[i])}) = 3
           /\ NonBlankDocx(before[4])
           /\ after[4] = before[4]
           /\ \E i \in 1..Len(doc.out.paragraphs) :
                  doc.out.paragraphs[i] = doc.translated_texts[1]
           /\ \E j \in Len(doc.out.paragraphs) + 1..3 :
                  after[j] = doc.translated_texts[2]


(***************************************************************************)
(* Properties of the /translate handler.                                   *)
(***************************************************************************)
\* the request of p names a file whose extension is not docx, xlsx or txt
AskedUnsupported(h, p) ==
    /\ h[p] # None
    /\ Ext(h[p].filename) \notin {Docx, Xlsx, Txt}

\* C20: a /translate request whose filename extension is not docx, xlsx or
\* txt is answered with status 400 and translate_batch is not invoked for it:
\* from the step that receives the request on, the request has made no
\* provider call and no step changes the table.
C20_UnsupportedFileType ==
    [][\A p \in Runs :
           AskedUnsupported(http', p) =>
               /\ http'[p].status = 400
               /\ pc'[p] = "idle"
               /\ begin'[p] = None
               /\ calls'[p] = 0
               /\ calls' = calls
               /\ store' = store]_vars

\* a file named a.pdf was answered 400 while the table holds a row
C20_Witness ==
    \E p \in Runs :
        /\ http[p] # None
        /\ http[p].filename = <<"a", ".", "p", "d", "f">>
        /\ http[p].status = 400
        /\ store # <<>>
        /\ pc[p] = "idle"

=============================================================================
